---- MODULE Spec2Model ----
(***************************************************************************)
(* range-time: a builder for time ranges, the lazy iterator over a range   *)
(* (TimeRangeIter::next) and the counting routine (total_steps).           *)
(*                                                                         *)
(* Instants are whole seconds since 1970-01-01T00:00:00Z, durations are    *)
(* whole seconds.  An Option<T> is the set {} (None) or {v} (Some(v)).     *)
(* next() and total_steps() are modelled one loop pass at a time, and the  *)
(* weekend walk one iteration at a time, so that a loop that never exits   *)
(* is a behaviour of the model and not an undefined operator.              *)
(***************************************************************************)
EXTENDS Integers, Sequences, FiniteSets, TLC

\* ------------------------------------------------------------------------
\* Bounds of the model
\* ------------------------------------------------------------------------
\* longest window, in days, that a range given to the engines spans
WindowDays == 30
\* calls of next() made after the first None
MaxExtraCalls == 2
\* loop passes explored for a range whose step is zero or negative
MaxPasses == 3
\* calls of total_steps() and total_duration_in_seconds() on one range
MaxQueries == 2

\* most grid points start + k*step below end of a range given to the engines
MaxGrid == WindowDays

\* ------------------------------------------------------------------------
\* Time: chrono's units and weekday numbering
\* ------------------------------------------------------------------------
SecsPerMinute == 60
SecsPerHour == 3600
SecsPerDay == 86400

\* 2024-01-01T00:00:00Z (a Monday), the start of both examples
Base == 1704067200

\* TimeStep: a unit tag and a signed count
TimeStep(u, n) == [unit |-> u, n |-> n]

\* impl From<TimeStep> for Duration
DurationFrom(value) ==
    CASE value.unit = "Second" -> value.n
      [] value.unit = "Minute" -> value.n * SecsPerMinute
      [] value.unit = "Hour"   -> value.n * SecsPerHour
      [] value.unit = "Day"    -> value.n * SecsPerDay

\* Duration::num_seconds: whole seconds of a duration (durations here carry
\* no sub-second part)
num_seconds(d) == d

\* TimeStep::as_total_seconds
as_total_seconds(step) == num_seconds(DurationFrom(step))

\* Datelike::weekday().number_from_monday(): Monday = 1 ... Sunday = 7.
\* Day 0 of the epoch (1970-01-01) is a Thursday.
number_from_monday(t) == (((t \div SecsPerDay) + 3) % 7) + 1

\* Timelike::minute(), as used by the filter of examples/custom_filter.rs
minute(t) == (t \div SecsPerMinute) % 60

\* the weekday test of both weekend walks
IsWeekendSundayOnly(t) == number_from_monday(t) = 7
IsWeekend(t) == number_from_monday(t) = 6 \/ number_from_monday(t) = 7

\* ------------------------------------------------------------------------
\* Inputs
\* ------------------------------------------------------------------------
\* start: midnight of each day of the week of 2024-01-01
StartSet == {Base + d * SecsPerDay : d \in 0..6}

\* end: at, shortly after and days after Base, and WindowDays after each start
EndSet ==
    {Base, Base + 10 * SecsPerMinute, Base + SecsPerDay,
     Base + 2 * SecsPerDay + 12 * SecsPerHour, Base + 6 * SecsPerDay,
     Base + 8 * SecsPerDay}
    \cup {s + WindowDays * SecsPerDay : s \in StartSet}

StepSet ==
    {TimeStep("Minute", 1), TimeStep("Hour", 6), TimeStep("Hour", 36),
     TimeStep("Day", 1), TimeStep("Day", 2), TimeStep("Second", 43200),
     TimeStep("Second", 0), TimeStep("Day", -1)}

\* filters: pure predicates on an instant, named
FilterSet ==
    {"evenMinute", "oddMinute", "evenDay", "weekendOnly", "never", "always"}

\* f(dt) for the filter named f
Accept(f, t) ==
    CASE f = "evenMinute"  -> minute(t) % 2 = 0
      [] f = "oddMinute"   -> minute(t) % 2 # 0
      [] f = "evenDay"     -> (t \div SecsPerDay) % 2 = 0
      [] f = "weekendOnly" -> IsWeekend(t)
      [] f = "never"       -> FALSE
      [] f = "always"      -> TRUE

\* if let Some(ref f) = self.filter { f(c) } else { accepted }
PassesNoneRejects(filter, c) == filter # {} /\ \A f \in filter : Accept(f, c)
Passes(filter, c) == \A f \in filter : Accept(f, c)

\* ------------------------------------------------------------------------
\* State
\* ------------------------------------------------------------------------
VARIABLES
    builder,        \* TimeRangeBuilder: start, end, step, skip_weekends, filter
    given,          \* the argument of the latest call of each setter
    phase,          \* "builder", "failed", "range" (built), "iter" (consumed)
    error,          \* Err(..) of build(), "" when there is none
    range,          \* TimeRange returned by build()
    iter,           \* TimeRangeIter: current, end, step, skip_weekends, filter
    pc,             \* position in next(): "idle", "loop", "walk"
    candidate,      \* local of next()
    day_candidate,  \* local of next()
    produced,       \* the Some(..) values returned by next(), in order
    nones,          \* number of calls of next() that returned None
    passes,         \* loop passes of next() so far
    evals,          \* instants the iterator evaluated the filter on, in order
    ts_pc,          \* position in total_steps(): "idle", "loop", "walk"
    ts,             \* locals of total_steps(): count, current, candidate
    ts_passes,      \* passes of the outer loop of the running total_steps()
    ts_results,     \* values returned by total_steps(), in order
    ts_for,         \* the routine the running total_steps() was called by
    td_results      \* values returned by total_duration_in_seconds(), in order

vars == <<builder, given, phase, error, range, iter, pc, candidate, day_candidate,
          produced, nones, passes, evals, ts_pc, ts, ts_passes, ts_results,
          ts_for, td_results>>

builderVars == <<builder, given, phase, error, range>>
iterVars == <<iter, pc, candidate, day_candidate, produced, nones, passes, evals>>
tsVars == <<ts_pc, ts, ts_passes, ts_results, ts_for, td_results>>

\* TimeRangeBuilder::new
BuilderNew ==
    [start |-> {}, end |-> {}, step |-> {}, skip_weekends |-> FALSE, filter |-> {}]

NoRange ==
    [start |-> 0, end |-> 0, step |-> TimeStep("Second", 0),
     skip_weekends |-> FALSE, filter |-> {}]

NoIter == [current |-> 0, end |-> 0, step |-> 0, skip_weekends |-> FALSE, filter |-> {}]

NoTs == [count |-> 0, current |-> 0, candidate |-> 0]

Init ==
    /\ builder = BuilderNew
    /\ given = BuilderNew
    /\ phase = "builder"
    /\ error = ""
    /\ range = NoRange
    /\ iter = NoIter
    /\ pc = "idle"
    /\ candidate = 0
    /\ day_candidate = 0
    /\ produced = <<>>
    /\ nones = 0
    /\ passes = 0
    /\ evals = <<>>
    /\ ts_pc = "idle"
    /\ ts = NoTs
    /\ ts_passes = 0
    /\ ts_results = <<>>
    /\ ts_for = "total_steps"
    /\ td_results = <<>>

\* ------------------------------------------------------------------------
\* TimeRangeBuilder
\* ------------------------------------------------------------------------
SetStart(t) ==
    /\ phase = "builder"
    /\ builder' = [builder EXCEPT !.start = {t}]
    /\ given' = [given EXCEPT !.start = {t}]
    /\ UNCHANGED <<phase, error, range, iterVars, tsVars>>

SetEndWritesStart(t) ==
    /\ phase = "builder"
    /\ builder' = [builder EXCEPT !.start = {t}]
    /\ given' = [given EXCEPT !.end = {t}]
    /\ UNCHANGED <<phase, error, range, iterVars, tsVars>>
SetEnd(t) ==
    /\ phase = "builder"
    /\ builder' = [builder EXCEPT !.end = {t}]
    /\ given' = [given EXCEPT !.end = {t}]
    /\ UNCHANGED <<phase, error, range, iterVars, tsVars>>

SetStep(s) ==
    /\ phase = "builder"
    /\ builder' = [builder EXCEPT !.step = {s}]
    /\ given' = [given EXCEPT !.step = {s}]
    /\ UNCHANGED <<phase, error, range, iterVars, tsVars>>

SetSkipWeekends(skip) ==
    /\ phase = "builder"
    /\ builder' = [builder EXCEPT !.skip_weekends = skip]
    /\ given' = [given EXCEPT !.skip_weekends = skip]
    /\ UNCHANGED <<phase, error, range, iterVars, tsVars>>

SetFilter(f) ==
    /\ phase = "builder"
    /\ builder' = [builder EXCEPT !.filter = {f}]
    /\ given' = [given EXCEPT !.filter = {f}]
    /\ UNCHANGED <<phase, error, range, iterVars, tsVars>>

\* the value inside Some(..)
Unwrap(opt) == CHOOSE v \in opt : TRUE

\* if end <= start { return Err(..) }
InvalidRangeStrict(start, end) == end < start
InvalidRange(start, end) == end <= start

\* the result of build(): the error message, "" for Ok
BuildErrorStepFirst(b) ==
    IF b.step = {} THEN "step is required"
    ELSE IF b.start = {} THEN "start time is required"
    ELSE IF b.end = {} THEN "end time is required"
    ELSE IF InvalidRange(Unwrap(b.start), Unwrap(b.end))
         THEN "end time must be after start time"
    ELSE ""
BuildErrorRangeFirst(b) ==
    IF b.start = {} THEN "start time is required"
    ELSE IF b.end = {} THEN "end time is required"
    ELSE IF InvalidRange(Unwrap(b.start), Unwrap(b.end))
         THEN "end time must be after start time"
    ELSE IF b.step = {} THEN "step is required"
    ELSE ""
BuildError(b) ==
    IF b.start = {} THEN "start time is required"
    ELSE IF b.end = {} THEN "end time is required"
    ELSE IF b.step = {} THEN "step is required"
    ELSE IF InvalidRange(Unwrap(b.start), Unwrap(b.end))
         THEN "end time must be after start time"
    ELSE ""

\* Ok(TimeRange { .. })
BuiltRange(b) ==
    [start |-> Unwrap(b.start), end |-> Unwrap(b.end),
     step |-> Unwrap(b.step),
     skip_weekends |-> b.skip_weekends, filter |-> b.filter]

Build ==
    /\ phase = "builder"
    /\ error' = BuildError(builder)
    /\ IF BuildError(builder) = ""
       THEN /\ phase' = "range"
            /\ range' = BuiltRange(builder)
       ELSE /\ phase' = "failed"
            /\ range' = range
    /\ UNCHANGED <<builder, given, iterVars, tsVars>>

\* ------------------------------------------------------------------------
\* Which built ranges the engines are run on
\* ------------------------------------------------------------------------
\* number of instants start + k*d (k >= 0) below end, for d > 0
GridCount(start, end, d) ==
    IF end <= start THEN 0 ELSE ((end - start) + d - 1) \div d

\* the k-th grid point, k >= 0
GridPoint(start, d, k) == start + k * d

Drivable(r) ==
    IF DurationFrom(r.step) <= 0 THEN TRUE
    ELSE GridCount(r.start, r.end, DurationFrom(r.step)) <= MaxGrid

\* ------------------------------------------------------------------------
\* IntoIterator for TimeRange
\* ------------------------------------------------------------------------
into_iter(r) ==
    [current |-> r.start, end |-> r.end, step |-> DurationFrom(r.step),
     skip_weekends |-> r.skip_weekends, filter |-> r.filter]

IntoIter ==
    /\ phase = "range"
    /\ ts_pc = "idle"
    /\ Drivable(range)
    /\ phase' = "iter"
    /\ iter' = into_iter(range)
    /\ UNCHANGED <<builder, given, error, range, pc, candidate, day_candidate, produced,
                   nones, passes, evals, tsVars>>

\* ------------------------------------------------------------------------
\* Iterator for TimeRangeIter: next()
\* ------------------------------------------------------------------------
\* if self.current >= self.end { return None; }
ExhaustedLe(it) == it.current <= it.end
ExhaustedEq(it) == it.current = it.end
ExhaustedGt(it) == it.current > it.end
Exhausted(it) == it.current >= it.end

\* self.current = self.current + self.step
AdvanceStall(it) == it
AdvanceTwice(it) == [it EXCEPT !.current = it.current + 2 * it.step]
Advance(it) == [it EXCEPT !.current = it.current + it.step]

\* self.current = day_candidate + self.step
ResyncNoStep(it, d) == [it EXCEPT !.current = d]
ResyncCompounded(it, d) == [it EXCEPT !.current = d + 2 * it.step]
ResyncKeep(it, d) == it
Resync(it, d) == [it EXCEPT !.current = d + it.step]

\* the condition of the weekend walk
WalkCond(d, end) == IsWeekend(d) /\ d < end

\* a call of next() begins
NextCall ==
    /\ phase = "iter"
    /\ pc = "idle"
    /\ nones <= MaxExtraCalls
    /\ pc' = "loop"
    /\ UNCHANGED <<builderVars, iter, candidate, day_candidate, produced, nones,
                   passes, evals, tsVars>>

\* return None
ReturnNone ==
    /\ nones' = nones + 1
    /\ pc' = "idle"
    /\ UNCHANGED <<produced, evals>>

\* the filter decides on the emit-candidate c: return Some(c), or continue
DecideNoFilter(c) ==
    /\ evals' = IF iter.filter = {} THEN evals ELSE Append(evals, c)
    /\ nones' = nones
    /\ produced' = Append(produced, c)
    /\ pc' = "idle"
Decide(c) ==
    /\ evals' = IF iter.filter = {} THEN evals ELSE Append(evals, c)
    /\ nones' = nones
    /\ IF Passes(iter.filter, c)
       THEN /\ produced' = Append(produced, c)
            /\ pc' = "idle"
       ELSE /\ produced' = produced
            /\ pc' = "loop"

\* top of the loop with the cursor at or past end
LoopExhausted ==
    /\ pc = "loop"
    /\ Exhausted(iter)
    /\ ReturnNone
    /\ UNCHANGED <<builderVars, iter, candidate, day_candidate, passes, tsVars>>

\* top of the loop otherwise: take the candidate, advance the cursor, and
\* either enter the weekend walk or let the filter decide
LoopAdvance ==
    /\ pc = "loop"
    /\ ~Exhausted(iter)
    /\ (iter.step > 0 \/ passes < MaxPasses)
    /\ candidate' = iter.current
    /\ iter' = Advance(iter)
    /\ passes' = passes + 1
    /\ IF iter.skip_weekends
       THEN /\ day_candidate' = iter.current
            /\ pc' = "walk"
            /\ UNCHANGED <<produced, nones, evals>>
       ELSE /\ day_candidate' = day_candidate
            /\ Decide(iter.current)
    /\ UNCHANGED <<builderVars, tsVars>>

\* one iteration of the weekend walk
WalkStep ==
    /\ pc = "walk"
    /\ WalkCond(day_candidate, iter.end)
    /\ day_candidate' = day_candidate + iter.step
    /\ UNCHANGED <<builderVars, iter, pc, candidate, produced, nones, passes,
                   evals, tsVars>>

\* after the walk
WalkDoneFilterCandidate ==
    /\ pc = "walk"
    /\ ~WalkCond(day_candidate, iter.end)
    /\ IF day_candidate # candidate
       THEN /\ iter' = Resync(iter, day_candidate)
            /\ IF day_candidate < iter.end
               THEN Decide(candidate)
               ELSE ReturnNone
       ELSE /\ iter' = iter
            /\ Decide(candidate)
    /\ UNCHANGED <<builderVars, candidate, day_candidate, passes, tsVars>>
WalkDone ==
    /\ pc = "walk"
    /\ ~WalkCond(day_candidate, iter.end)
    /\ IF day_candidate # candidate
       THEN /\ iter' = Resync(iter, day_candidate)
            /\ IF day_candidate < iter.end
               THEN Decide(day_candidate)
               ELSE ReturnNone
       ELSE /\ iter' = iter
            /\ Decide(candidate)
    /\ UNCHANGED <<builderVars, candidate, day_candidate, passes, tsVars>>

\* ------------------------------------------------------------------------
\* ComputeTimeRange for TimeRange: total_steps()
\* ------------------------------------------------------------------------
\* let mut count = 0usize; let mut current = self.start;
TsEntryKeepCount == [ts EXCEPT !.current = range.start]
TsEntry == [count |-> 0, current |-> range.start, candidate |-> 0]

\* a call of total_steps() by the user of the range begins
TotalStepsCall ==
    /\ phase = "range"
    /\ ts_pc = "idle"
    /\ Len(ts_results) + Len(td_results) < MaxQueries
    /\ Drivable(range)
    /\ ts' = TsEntry
    /\ ts_for' = "total_steps"
    /\ ts_passes' = 0
    /\ ts_pc' = "loop"
    /\ UNCHANGED <<builderVars, iterVars, ts_results, td_results>>

\* a call of total_duration_in_seconds() begins: let steps = self.total_steps();
TotalDurationCall ==
    /\ phase = "range"
    /\ ts_pc = "idle"
    /\ Len(ts_results) + Len(td_results) < MaxQueries
    /\ Drivable(range)
    /\ ts' = TsEntry
    /\ ts_for' = "total_duration_in_seconds"
    /\ ts_passes' = 0
    /\ ts_pc' = "loop"
    /\ UNCHANGED <<builderVars, iterVars, ts_results, td_results>>

\* steps as i64 * self.step.as_total_seconds()
total_duration_count_only(steps, step) == steps
total_duration_in_seconds(steps, step) == steps * as_total_seconds(step)

\* while current < self.end
TsLoopCond(current, end) == current < end

\* the function returns count
TsReturn ==
    /\ IF ts_for = "total_steps"
       THEN /\ ts_results' = Append(ts_results, ts.count)
            /\ td_results' = td_results
       ELSE /\ ts_results' = ts_results
            /\ td_results' =
                 Append(td_results, total_duration_in_seconds(ts.count, range.step))
    /\ ts_pc' = "idle"
    /\ ts_for' = ts_for
    /\ ts' = ts

\* the loop body after the weekend walk, with the candidate c
TsBodyNoFilter(c) ==
    IF c >= range.end
    THEN TsReturn
    ELSE /\ ts' = [ts EXCEPT
                     !.candidate = c,
                     !.count = ts.count + 1,
                     !.current = c + DurationFrom(range.step)]
         /\ ts_pc' = "loop"
         /\ UNCHANGED <<ts_results, ts_for, td_results>>
TsBody(c) ==
    IF c >= range.end
    THEN TsReturn
    ELSE /\ ts' = [ts EXCEPT
                     !.candidate = c,
                     !.count = IF Passes(range.filter, c) THEN ts.count + 1
                               ELSE ts.count,
                     !.current = c + DurationFrom(range.step)]
         /\ ts_pc' = "loop"
         /\ UNCHANGED <<ts_results, ts_for, td_results>>

TsLoopExit ==
    /\ ts_pc = "loop"
    /\ ~TsLoopCond(ts.current, range.end)
    /\ TsReturn
    /\ UNCHANGED <<builderVars, iterVars, ts_passes>>

TsLoopEnter ==
    /\ ts_pc = "loop"
    /\ TsLoopCond(ts.current, range.end)
    /\ (DurationFrom(range.step) > 0 \/ ts_passes < MaxPasses)
    /\ ts_passes' = ts_passes + 1
    /\ IF range.skip_weekends
       THEN /\ ts' = [ts EXCEPT !.candidate = ts.current]
            /\ ts_pc' = "walk"
            /\ UNCHANGED <<ts_results, ts_for, td_results>>
       ELSE TsBody(ts.current)
    /\ UNCHANGED <<builderVars, iterVars>>

TsWalkStep ==
    /\ ts_pc = "walk"
    /\ WalkCond(ts.candidate, range.end)
    /\ ts' = [ts EXCEPT !.candidate = ts.candidate + DurationFrom(range.step)]
    /\ UNCHANGED <<builderVars, iterVars, ts_pc, ts_passes, ts_results, ts_for,
                   td_results>>

TsWalkDone ==
    /\ ts_pc = "walk"
    /\ ~WalkCond(ts.candidate, range.end)
    /\ TsBody(ts.candidate)
    /\ UNCHANGED <<builderVars, iterVars, ts_passes>>

\* ------------------------------------------------------------------------
\* Specification
\* ------------------------------------------------------------------------
Next ==
    \/ \E t \in StartSet : SetStart(t)
    \/ \E t \in EndSet : SetEnd(t)
    \/ \E s \in StepSet : SetStep(s)
    \/ \E skip \in BOOLEAN : SetSkipWeekends(skip)
    \/ \E f \in FilterSet : SetFilter(f)
    \/ Build
    \/ IntoIter
    \/ NextCall
    \/ LoopExhausted
    \/ LoopAdvance
    \/ WalkStep
    \/ WalkDone
    \/ TotalStepsCall
    \/ TotalDurationCall
    \/ TsLoopExit
    \/ TsLoopEnter
    \/ TsWalkStep
    \/ TsWalkDone

Spec == Init /\ [][Next]_vars

\* the steps of a running next(), and of a caller that keeps calling it
IterStep == NextCall \/ LoopExhausted \/ LoopAdvance \/ WalkStep \/ WalkDone

\* the steps of a running total_steps()
TsStep == TsLoopExit \/ TsLoopEnter \/ TsWalkStep \/ TsWalkDone

\* the program with at most one query, a total_steps(), before the drain
FairNext ==
    \/ \E t \in StartSet : SetStart(t)
    \/ \E t \in EndSet : SetEnd(t)
    \/ \E s \in StepSet : SetStep(s)
    \/ \E skip \in BOOLEAN : SetSkipWeekends(skip)
    \/ \E f \in FilterSet : SetFilter(f)
    \/ Build
    \/ IntoIter
    \/ NextCall
    \/ LoopExhausted
    \/ LoopAdvance
    \/ WalkStep
    \/ WalkDone
    \/ (ts_results = <<>> /\ TotalStepsCall)
    \/ TsLoopExit
    \/ TsLoopEnter
    \/ TsWalkStep
    \/ TsWalkDone

\* Both routines are straight-line single-threaded code: a call that has
\* begun keeps executing, and the caller draining the iterator keeps calling.
FairSpec ==
    Init /\ [][FairNext]_vars /\ WF_vars(IterStep) /\ WF_vars(TsStep)

\* ------------------------------------------------------------------------
\* Vocabulary of the properties
\* ------------------------------------------------------------------------
\* the step of the built range, as a duration
StepSecs == DurationFrom(range.step)

\* an iterator over a range with a strictly positive step exists
PositiveIter == phase = "iter" /\ StepSecs > 0

\* the instants start + k*step (k >= 0) below end, ascending, for a positive step
GridSeq(r) ==
    [k \in 1..GridCount(r.start, r.end, DurationFrom(r.step)) |->
        GridPoint(r.start, DurationFrom(r.step), k - 1)]

IsPrefix(a, b) == Len(a) <= Len(b) /\ \A i \in 1..Len(a) : a[i] = b[i]

\* examples/range.rs
RangeExample ==
    [start |-> Base, end |-> Base + SecsPerDay, step |-> TimeStep("Hour", 6),
     skip_weekends |-> FALSE, filter |-> {}]

\* the 10-minute window of examples/custom_filter.rs, with the filter that
\* rejects the even minutes
OddMinuteExample ==
    [start |-> Base, end |-> Base + 10 * SecsPerMinute, step |-> TimeStep("Minute", 1),
     skip_weekends |-> FALSE, filter |-> {"oddMinute"}]

\* ------------------------------------------------------------------------
\* C1: for a built range with a positive step, with or without skip_weekends
\* and filter, the value total_steps() returned equals the number of
\* timestamps next() produced until it returned None.
\* ------------------------------------------------------------------------
C1_CountEqualsDrain ==
    (PositiveIter /\ nones > 0 /\ ts_results # <<>>)
        => \A q \in 1..Len(ts_results) : ts_results[q] = Len(produced)

C1_Witness ==
    /\ PositiveIter /\ nones > 0 /\ ts_results # <<>>
    /\ range.skip_weekends /\ range.filter # {}
    /\ Len(produced) >= 5
    /\ Len(produced) < Len(evals)
    /\ Len(evals) < GridCount(range.start, range.end, StepSecs)

\* ------------------------------------------------------------------------
\* C2: without skip_weekends and filter, with a positive step s, the iterator
\* produces the instants start + k*s below end in ascending order and then
\* None, ceil((end - start) / s) of them; the range of examples/range.rs
\* produces 00:00, 06:00, 12:00 and 18:00.
\* ------------------------------------------------------------------------
C2_PlainGrid ==
    (PositiveIter /\ ~range.skip_weekends /\ range.filter = {})
        => /\ IsPrefix(produced, GridSeq(range))
           /\ nones > 0 =>
                /\ produced = GridSeq(range)
                /\ Len(produced) * StepSecs >= range.end - range.start
                /\ (Len(produced) - 1) * StepSecs < range.end - range.start
           /\ (nones > 0 /\ range = RangeExample) =>
                produced = <<Base, Base + 6 * SecsPerHour, Base + 12 * SecsPerHour,
                             Base + 18 * SecsPerHour>>

C2_Witness ==
    /\ phase = "iter" /\ range = RangeExample
    /\ nones > 0
    /\ Len(produced) = 4

\* ------------------------------------------------------------------------
\* C3: without skip_weekends, with a positive step and a filter f, the
\* iterator produces exactly the instants start + k*step below end that f
\* accepts, in ascending order, and none equal to end; over the 10-minute
\* window with step Minute(1) and the even minutes rejected it produces the
\* odd minutes.
\* ------------------------------------------------------------------------
C3_FilteredGrid ==
    (PositiveIter /\ ~range.skip_weekends /\ range.filter # {})
        => LET f == Unwrap(range.filter)
               keep(t) == Accept(f, t)
               expected == SelectSeq(GridSeq(range), keep)
           IN  /\ IsPrefix(produced, expected)
               /\ nones > 0 => produced = expected
               /\ \A i \in 1..Len(produced) : produced[i] # range.end
               /\ (nones > 0 /\ range = OddMinuteExample) =>
                    produced = [i \in 1..5 |-> Base + (2 * i - 1) * SecsPerMinute]

C3_Witness ==
    /\ phase = "iter" /\ range = OddMinuteExample
    /\ nones > 0
    /\ Len(produced) = 5
    /\ Len(evals) = 10

\* ------------------------------------------------------------------------
\* C4: with skip_weekends set and a positive step, no timestamp the iterator
\* produces falls on a Saturday (6) or a Sunday (7), whatever the window and
\* the filter.
\* ------------------------------------------------------------------------
C4_NoWeekendProduced ==
    (PositiveIter /\ range.skip_weekends)
        => \A i \in 1..Len(produced) :
              (((produced[i] \div SecsPerDay) + 3) % 7) + 1 \notin {6, 7}

C4_Witness ==
    /\ PositiveIter /\ range.skip_weekends
    /\ range.step = TimeStep("Day", 1)
    /\ range.end - range.start = WindowDays * SecsPerDay
    /\ number_from_monday(range.start) = 6
    /\ nones > 0
    /\ Len(produced) >= 20

\* ------------------------------------------------------------------------
\* C5: every timestamp the iterator produces is strictly less than end, for
\* every built range, also when a weekend walk runs up to or past end.
\* ------------------------------------------------------------------------
C5_BelowEnd ==
    phase = "iter" => \A i \in 1..Len(produced) : produced[i] < range.end

C5_Witness ==
    /\ phase = "iter" /\ range.skip_weekends
    /\ nones > 0
    /\ day_candidate # candidate
    /\ day_candidate >= range.end
    /\ produced # <<>>

\* ------------------------------------------------------------------------
\* C6 as stated: for every range build() accepts, each produced timestamp is
\* strictly later than the one before it, by at least one step.
\* ------------------------------------------------------------------------
C6_Original ==
    phase = "iter"
        => \A i \in 1..(Len(produced) - 1) :
              /\ produced[i + 1] > produced[i]
              /\ produced[i + 1] >= produced[i] + StepSecs

\* C6 amended: for every built range with a strictly positive step, each
\* produced timestamp is later than the one before it by at least one step.
C6_ForwardByStep ==
    PositiveIter
        => \A i \in 1..(Len(produced) - 1) :
              /\ produced[i + 1] > produced[i]
              /\ produced[i + 1] >= produced[i] + StepSecs

C6_Witness ==
    /\ PositiveIter
    /\ \E i \in 1..(Len(produced) - 1) : produced[i + 1] > produced[i] + StepSecs
    /\ \E i \in 1..(Len(produced) - 1) : produced[i + 1] = produced[i] + StepSecs

\* ------------------------------------------------------------------------
\* C7: once a call of next() has returned None, no later call produces a
\* timestamp and every later call that returns, returns None.
\* ------------------------------------------------------------------------
C7_ExhaustedIsTerminal ==
    [][nones > 0 =>
          /\ produced' = produced
          /\ (pc # "idle" /\ pc' = "idle") => nones' = nones + 1]_vars

C7_Witness ==
    /\ phase = "iter" /\ range.skip_weekends
    /\ nones >= 2
    /\ day_candidate # candidate
    /\ day_candidate >= range.end
    /\ iter.current > iter.end

\* ------------------------------------------------------------------------
\* C8: with start, end and step all set, build() fails with the invalid-range
\* error when end <= start (end = start included) and succeeds when
\* end > start; every built range has end > start.
\* ------------------------------------------------------------------------
C8_RangeOrder ==
    /\ (phase # "builder" /\ builder.start # {} /\ builder.end # {}
            /\ builder.step # {})
        => IF Unwrap(builder.end) <= Unwrap(builder.start)
           THEN phase = "failed" /\ error = "end time must be after start time"
           ELSE phase \in {"range", "iter"} /\ error = ""
    /\ phase \in {"range", "iter"} => range.end > range.start

C8_Witness ==
    /\ phase = "failed"
    /\ builder.start # {} /\ builder.end # {} /\ builder.step # {}
    /\ builder.end = builder.start

\* ------------------------------------------------------------------------
\* C9: build() fails with a missing-field error when start, end or step was
\* never set, whatever other setters were called, and produces no TimeRange.
\* ------------------------------------------------------------------------
C9_MissingField ==
    (phase # "builder" /\ (builder.start = {} \/ builder.end = {}
            \/ builder.step = {}))
        => /\ phase = "failed"
           /\ error \in {"start time is required", "end time is required",
                         "step is required"}
           /\ range = NoRange

C9_Witness ==
    /\ phase = "failed"
    /\ builder.start # {} /\ builder.end # {} /\ builder.step = {}
    /\ Unwrap(builder.end) <= Unwrap(builder.start)
    /\ builder.skip_weekends /\ builder.filter # {}

\* ------------------------------------------------------------------------
\* C10: for a built range with a positive step, total_steps() returns, every
\* call of next() returns, and repeated calls reach None; the passes of
\* either loop that take a candidate number at most the grid points
\* start + k*step below end.
\* ------------------------------------------------------------------------
C10_Terminates ==
    /\ [](PositiveIter => passes <= GridCount(range.start, range.end, StepSecs))
    /\ []((phase = "range" /\ StepSecs > 0)
            => ts_passes <= GridCount(range.start, range.end, StepSecs))
    /\ (PositiveIter ~> (nones > 0 /\ pc = "idle"))
    /\ ((PositiveIter /\ pc # "idle") ~> pc = "idle")
    /\ ((phase = "range" /\ StepSecs > 0 /\ ts_pc # "idle") ~> ts_pc = "idle")

C10_Witness ==
    /\ PositiveIter /\ range.skip_weekends /\ range.filter # {}
    /\ nones > 0 /\ pc = "idle"
    /\ ts_results # <<>>
    /\ passes >= 20
    /\ passes > Len(produced)

\* ------------------------------------------------------------------------
\* C11: for a built range with a positive step, total_duration_in_seconds()
\* is total_steps() times the step's seconds: n for Second(n), 60n for
\* Minute(n), 3600n for Hour(n), 86400n for Day(n).
\* ------------------------------------------------------------------------
C11_DurationIsCountTimesStep ==
    (phase \in {"range", "iter"} /\ StepSecs > 0)
        => \A k \in 1..Len(td_results) : \A q \in 1..Len(ts_results) :
              td_results[k] =
                 ts_results[q] *
                    (CASE range.step.unit = "Second" -> range.step.n
                       [] range.step.unit = "Minute" -> 60 * range.step.n
                       [] range.step.unit = "Hour"   -> 3600 * range.step.n
                       [] range.step.unit = "Day"    -> 86400 * range.step.n)

C11_Witness ==
    /\ phase = "range" /\ StepSecs > 0
    /\ range.step = TimeStep("Hour", 36)
    /\ range.skip_weekends /\ range.filter # {}
    /\ Len(td_results) = 1 /\ Len(ts_results) = 1
    /\ ts_results[1] >= 3
    /\ td_results[1] = ts_results[1] * 129600

\* ------------------------------------------------------------------------
\* C12: a new builder has skip_weekends = false and no filter; the built
\* range carries the start, end and step given to the builder and the
\* skip_weekends and filter last given (or these defaults); and a range
\* without a filter behaves as one whose filter accepts everything: without
\* skip_weekends both produce the whole grid and total_steps() counts it.
\* ------------------------------------------------------------------------
C12_Defaults ==
    /\ given.skip_weekends = FALSE /\ given.filter = {}
    /\ [](phase \in {"range", "iter"} =>
            /\ range.start = Unwrap(given.start)
            /\ range.end = Unwrap(given.end)
            /\ range.step = Unwrap(given.step)
            /\ range.skip_weekends = given.skip_weekends
            /\ range.filter = given.filter)
    /\ []((phase \in {"range", "iter"} /\ StepSecs > 0 /\ ~range.skip_weekends
             /\ range.filter \in {{}, {"always"}}) =>
            /\ IsPrefix(produced, GridSeq(range))
            /\ nones > 0 => produced = GridSeq(range)
            /\ \A q \in 1..Len(ts_results) :
                  ts_results[q] = GridCount(range.start, range.end, StepSecs))

C12_Witness ==
    /\ PositiveIter
    /\ given.filter = {} /\ range.filter = {} /\ ~range.skip_weekends
    /\ nones > 0
    /\ ts_results # <<>>
    /\ Len(produced) >= 5
    /\ range.start # Base

\* the timestamps a drain of the range r is to produce, for a positive step:
\* the grid points below end, on Monday to Friday when skip_weekends is set,
\* that the filter (if any) accepts
ExpectedSeq(r) ==
    LET keep(t) ==
            /\ r.skip_weekends => (((t \div SecsPerDay) + 3) % 7) + 1 <= 5
            /\ \A f \in r.filter : Accept(f, t)
    IN  SelectSeq(GridSeq(r), keep)

\* ------------------------------------------------------------------------
\* C13: total_steps() is a pure function of the range: every call on the
\* same range returns the same value, no step of it changes the range, and
\* a drain after any number of queries produces the sequence the range
\* determines.
\* ------------------------------------------------------------------------
C13_TotalStepsPure ==
    /\ [](\A i, j \in 1..Len(ts_results) : ts_results[i] = ts_results[j])
    /\ [][(ts_pc # "idle" \/ ts_pc' # "idle")
             => (range' = range /\ iter' = iter /\ produced' = produced)]_vars
    /\ []((PositiveIter /\ nones > 0) => produced = ExpectedSeq(range))

C13_Witness ==
    /\ PositiveIter /\ range.skip_weekends /\ range.filter # {}
    /\ Len(ts_results) = 2
    /\ ts_results[1] >= 3
    /\ nones > 0
    /\ Len(produced) = ts_results[2]

\* ------------------------------------------------------------------------
\* C14: build() accepts a zero or negative step when end > start; for such a
\* range no call of next() returns None, and neither total_steps() nor
\* total_duration_in_seconds() returns: the cursor of either loop stays
\* below end.
\* ------------------------------------------------------------------------
C14_NonPositiveStepNeverEnds ==
    /\ (phase # "builder" /\ builder.start # {} /\ builder.end # {}
            /\ builder.step # {})
        => ((DurationFrom(Unwrap(builder.step)) <= 0
                /\ Unwrap(builder.end) > Unwrap(builder.start))
              => (phase \in {"range", "iter"} /\ error = ""))
    /\ (phase \in {"range", "iter"} /\ StepSecs <= 0)
        => /\ nones = 0
           /\ ts_results = <<>> /\ td_results = <<>>
           /\ phase = "iter" => iter.current < iter.end
           /\ ts_pc # "idle" => ts.current < range.end

C14_Witness ==
    /\ phase = "iter" /\ StepSecs < 0
    /\ range.skip_weekends
    /\ passes = MaxPasses
    /\ pc = "idle"
    /\ Len(produced) = MaxPasses
    /\ iter.current < range.start

\* a zero step on a weekend start: the weekend walk of next() spins in place
C14_ZeroStepSpin ==
    /\ phase = "iter" /\ StepSecs = 0 /\ pc = "walk"
    /\ WalkCond(day_candidate, iter.end)

\* a negative step in total_steps(): the cap of the model is reached
C14_CounterRuns ==
    /\ phase = "range" /\ StepSecs < 0 /\ ts_pc = "loop"
    /\ ts_passes = MaxPasses

\* ------------------------------------------------------------------------
\* C15: a setter assigns its own field and leaves the other four unchanged,
\* a repeated call replaces the earlier value, and build() uses the value
\* last given for each field, in whatever order the setters were called.
\* ------------------------------------------------------------------------
C15_SettersFrame ==
    /\ [](builder = given)
    /\ [][builder' # builder =>
            /\ Cardinality({f \in DOMAIN builder : builder'[f] # builder[f]}) = 1
            /\ \A f \in DOMAIN builder :
                  builder'[f] # builder[f] => builder'[f] = given'[f]]_vars
    /\ [](phase \in {"range", "iter"} =>
            range = [start |-> Unwrap(given.start), end |-> Unwrap(given.end),
                     step |-> Unwrap(given.step),
                     skip_weekends |-> given.skip_weekends,
                     filter |-> given.filter])

C15_Witness ==
    /\ phase = "range"
    /\ range.start = Base + 6 * SecsPerDay
    /\ range.end = Base + 8 * SecsPerDay
    /\ range.step = TimeStep("Hour", 6)
    /\ range.skip_weekends
    /\ range.filter = {"evenDay"}
    /\ builder = given

Last(q) == q[Len(q)]

\* ------------------------------------------------------------------------
\* C16: after every pass of the iterator loop that selects a candidate,
\* emitted or rejected by the filter, reached with or without a weekend
\* walk, the cursor is that candidate plus exactly one step.
\* ------------------------------------------------------------------------
C16_CursorIsCandidatePlusStep ==
    [][/\ produced' # produced => iter'.current = Last(produced') + iter.step
       /\ evals' # evals => iter'.current = Last(evals') + iter.step]_vars

C16_Witness ==
    /\ phase = "iter" /\ iter.skip_weekends /\ iter.step > 0
    /\ pc = "loop"
    /\ day_candidate # candidate
    /\ day_candidate < iter.end
    /\ evals # <<>> /\ Last(evals) = day_candidate
    /\ produced # <<>> /\ Last(produced) < candidate
    /\ iter.current = day_candidate + iter.step

\* ------------------------------------------------------------------------
\* C17: with skip_weekends set and a positive step the iterator produces
\* exactly the grid points below end that fall on Monday to Friday and that
\* the filter (if any) accepts, in ascending order - what a range without
\* skip_weekends would produce under a filter that also rejects Saturday
\* and Sunday; total_steps() counts the same points.
\* ------------------------------------------------------------------------
C17_WeekdayGrid ==
    (phase \in {"range", "iter"} /\ StepSecs > 0 /\ range.skip_weekends)
        => /\ IsPrefix(produced, ExpectedSeq(range))
           /\ nones > 0 => produced = ExpectedSeq(range)
           /\ \A q \in 1..Len(ts_results) : ts_results[q] = Len(ExpectedSeq(range))

C17_Witness ==
    /\ PositiveIter /\ range.skip_weekends
    /\ range.filter = {"evenDay"}
    /\ range.step = TimeStep("Day", 1)
    /\ number_from_monday(range.start) = 7
    /\ nones > 0
    /\ Len(produced) >= 8
    /\ \E i \in 1..Len(produced) : number_from_monday(produced[i]) = 1
    /\ Len(produced) < Len(evals)

\* the filter evaluations of an iterator with skip_weekends: none on a
\* Saturday or Sunday, none at or past end, none repeated
EvalsClean ==
    /\ \A i \in 1..Len(evals) :
          /\ (((evals[i] \div SecsPerDay) + 3) % 7) + 1 \notin {6, 7}
          /\ evals[i] < range.end
    /\ \A i, j \in 1..Len(evals) : i # j => evals[i] # evals[j]

\* a rejection by the filter leaves the call of next() at the top of the
\* loop, before the end check and the weekend walk
RejectionRestarts ==
    (evals' # evals /\ produced' = produced) => (pc' = "loop" /\ nones' = nones)

\* ------------------------------------------------------------------------
\* C18 as stated: with skip_weekends set, whatever the step, a rejection
\* restarts a full pass and the filter is never evaluated on a Saturday or
\* Sunday, never at or past end, and at most once on any timestamp.
\* ------------------------------------------------------------------------
C18_Original ==
    /\ [][RejectionRestarts]_vars
    /\ []((phase = "iter" /\ range.skip_weekends) => EvalsClean)

\* C18 amended: the same, for a step that is not zero.
C18_FilterEvaluations ==
    /\ [][RejectionRestarts]_vars
    /\ []((phase = "iter" /\ range.skip_weekends /\ StepSecs # 0) => EvalsClean)

C18_Witness ==
    /\ PositiveIter /\ range.skip_weekends
    /\ range.filter = {"evenDay"}
    /\ number_from_monday(range.start) = 6
    /\ nones > 0
    /\ Len(evals) >= 6
    /\ Len(produced) >= 2
    /\ Len(produced) < Len(evals)
    /\ Len(evals) < GridCount(range.start, range.end, StepSecs)

\* ------------------------------------------------------------------------
\* C19: build() reports the first missing field in the order start, end,
\* step, and reports end <= start only when all three are set.
\* ------------------------------------------------------------------------
C19_ErrorOrder ==
    phase # "builder"
        => /\ builder.start = {} => error = "start time is required"
           /\ (builder.start # {} /\ builder.end = {})
                => error = "end time is required"
           /\ (builder.start # {} /\ builder.end # {} /\ builder.step = {})
                => error = "step is required"
           /\ error = "end time must be after start time"
                => (builder.start # {} /\ builder.end # {} /\ builder.step # {})

C19_Witness ==
    /\ phase = "failed"
    /\ builder.start = {} /\ builder.end # {} /\ builder.step = {}
    /\ error = "start time is required"
====
